---- MODULE Spec2Model ----
(***************************************************************************)
(* Model of the mind-map learning tool.                                    *)
(*                                                                         *)
(* Part I  : the single-page client (src/components/mindmap.tsx, the       *)
(*           question modal) running against the in-memory mock session    *)
(*           of lib/api (backendAvailable = false).  Every mock API        *)
(*           function mutates mockSessionData synchronously at the call    *)
(*           and resolves its promise through setTimeout(100); the         *)
(*           continuation of the awaiting handler is a timer callback.     *)
(*           All timers have the same delay, so callbacks run in FIFO      *)
(*           order (variable timers).  A handler keeps the closure of the  *)
(*           render in which the event was raised (fields cFull,           *)
(*           cFocused).  While backendAvailable is true an API function    *)
(*           first posts to /api; when that request fails it clears the    *)
(*           flag and goes on with the mock part.                          *)
(*                                                                         *)
(* Part II : the LearningProvider of the app/ client (context/             *)
(*           LearningContext.tsx) with the ApiService of services/api.ts.  *)
(*           Its operations are called by the components that consume the  *)
(*           context; an operation that awaits a network call keeps the    *)
(*           progress map of the render in which it was called.            *)
(*                                                                         *)
(* Part III: the layout of the focused view as a function of the loaded    *)
(*           map: focusOnNode of src/components/mindmap.tsx, focusOnNode   *)
(*           of the component variant that also shows the parent, and      *)
(*           onNodeClick of app/components/MindMap.tsx.  Node positions    *)
(*           (variable positions) are tracked in the specifications of     *)
(*           this part only; Parts I and II leave them out.                *)
(***************************************************************************)
EXTENDS Integers, Sequences, FiniteSets, TLC

\* ---------------------------------------------------------------- bounds
MaxPending == 1
MaxAttempts == 1

\* most submissions of one question, all of which may be in flight together
MaxOverlap == 2

\* most context operations in flight, most graded answers per question
MaxCtxCalls == 1
MaxCtxAttempts == 1

\* most children of the focused node in the maps of Part III
MaxChildren == 7

\* arrangeNodesHierarchically is followed on maps of at most this many
\* nodes and edges
MaxArrangeNodes == 3

MaxArrangeEdges == 3

\* ------------------------------------------------------------- constants
NULL == "null"
NumMockQuestions == 3
NumApiQuestions == 2

Status == {"locked", "not_started", "in_progress", "completed"}

Edge(s, t) == [source |-> s, target |-> t]

\* A prerequisite chain of the local map (root -> B), the smallest map with
\* a locked node.
ChainNodes == <<"root", "B">>

ChainEdges == << Edge("root", "B") >>

\* root -> B, root -> C, B -> D, C -> D: D has the two prerequisites B and C
\* (in the local map: architecture and attention_mechanism -> encoder).
DiamondNodes == <<"root", "B", "C", "D">>

DiamondEdges == << Edge("root", "B"), Edge("root", "C"),
                   Edge("B", "D"), Edge("C", "D") >>

Range(seq) == {seq[i] : i \in 1..Len(seq)}

\* edges.filter(edge => edge.source === n).map(edge => edge.target)
Children(edgeList, n) == {e.target : e \in {d \in Range(edgeList) : d.source = n}}

\* the sources of the edges into n
Parents(edgeList, n) == {e.source : e \in {d \in Range(edgeList) : d.target = n}}

\* ------------------------------------------------------------- variables
VARIABLES
  topic,            \* mindmap.tsx: topic (NULL until a topic is selected)
  fullNodes,        \* mindmap.tsx: fullNodes, id -> data.status
  fullEdges,        \* mindmap.tsx: fullEdges, the loaded edge list
  nodes,            \* mindmap.tsx: nodes (visible), id -> data.status
  edges,            \* mindmap.tsx: edges (visible)
  selectedNode,     \* mindmap.tsx: selectedNode
  focusedNode,      \* mindmap.tsx: focusedNode
  lastClickedNode,  \* mindmap.tsx: lastClickedNode
  nodeQuestions,    \* mindmap.tsx: nodeQuestions, sequence of [id, status]
  isModalOpen,      \* mindmap.tsx: isModalOpen
  mockSessionData,  \* lib/api: mockSessionData[sessionId], [nodes, edges]
  timers,           \* pending setTimeout callbacks of mockSuccess and
                    \* pending requests to /api, FIFO
  backendAvailable, \* lib/api: backendAvailable
  checkPending,     \* checkBackendAvailability can still find the backend
  sessionId,        \* LearningContext: sessionId
  nodeProgress,     \* LearningContext: nodeProgress
  mapEdges,         \* LearningContext: edges
  calls,            \* context operations waiting for the network, FIFO
  graded,           \* graded answers per question since it was generated
  positions,        \* position of the rendered nodes, id -> [x, y]
  nodePath,         \* focused view with parent: nodePath (ids, root first)
  focusedNodeId,    \* app/components/MindMap.tsx: focusedNodeId
  arrNodes,         \* arrangeNodesHierarchically: nodes (ids in order)
  arrEdges,         \* arrangeNodesHierarchically: edges
  level,            \* arrangeNodesHierarchically: nodeMap, id -> level
  queue,            \* arrangeNodesHierarchically: queue (ids)
  arrPc             \* arrangeNodesHierarchically: "idle", "bfs" or "done"

vars == << topic, fullNodes, fullEdges, nodes, edges, selectedNode, focusedNode,
           lastClickedNode, nodeQuestions, isModalOpen, mockSessionData,
           timers, backendAvailable, checkPending, sessionId, nodeProgress,
           mapEdges, calls, graded, positions, nodePath, focusedNodeId,
           arrNodes, arrEdges, level, queue, arrPc >>

ctxVars == << sessionId, nodeProgress, mapEdges, calls, graded >>

clientVars == << topic, fullNodes, fullEdges, nodes, edges, selectedNode, focusedNode,
                 lastClickedNode, nodeQuestions, isModalOpen >>

netVars == << backendAvailable, checkPending >>

arrangeVars == << arrNodes, arrEdges, level, queue, arrPc >>

layoutVars == << positions, nodePath, focusedNodeId, arrangeVars >>

pageVars == << clientVars, mockSessionData, timers, netVars, layoutVars >>

\* what the handlers of the single-page client leave alone
restVars == << ctxVars, netVars, layoutVars >>

\* ------------------------------------------------------ lib/api (mock)
QuestionId(i, n) == [i |-> i, node |-> n]

NoQid == QuestionId(0, NULL)

EmptyFn == [n \in {} |-> "locked"]

\* mockSessionData[sessionId] is undefined until initializeSession
NoSession == [nodes |-> EmptyFn, edges |-> << >>]

\* generateQuestions: the three mock questions of a node
MockQuestions(n) ==
  [i \in 1..NumMockQuestions |->
     [id |-> QuestionId(i, n), status |-> "not_started", attempts |-> 0]]

\* initializeSession: one entry per node, status copied, no questions
MockInitializeSession(status, edgeList) ==
  [nodes |-> [n \in DOMAIN status |-> [status |-> status[n], questions |-> << >>]],
   edges |-> edgeList]

\* generateQuestions as it would be if it pushed the new questions onto the
\* stored list instead of assigning the list
MockGenerateQuestionsPushed(msd, n) ==
  IF n \in DOMAIN msd.nodes
    THEN [msd EXCEPT !.nodes[n].questions = @ \o MockQuestions(n)]
    ELSE msd

\* generateQuestions: overwrite the stored questions of a known node
MockGenerateQuestions(msd, n) ==
  IF n \in DOMAIN msd.nodes
    THEN [msd EXCEPT !.nodes[n].questions = MockQuestions(n)]
    ELSE msd

\* index of the question with the given id, 0 when absent (findIndex = -1)
FindIndex(qs, qid) ==
  IF \E i \in 1..Len(qs) : qs[i].id = qid
    THEN CHOOSE i \in 1..Len(qs) :
           qs[i].id = qid /\ \A j \in 1..(i - 1) : qs[j].id # qid
    ELSE 0

\* the question list after grading one answer
GradeQuestions(qs, qid, passed) ==
  LET k == FindIndex(qs, qid) IN
  IF k = 0 THEN qs
  ELSE [qs EXCEPT ![k].status = IF passed THEN "passed" ELSE "failed",
                  ![k].attempts = qs[k].attempts + 1]

\* questions.every(q => q.status === 'passed')
AllPassed(qs) == \A i \in 1..Len(qs) : qs[i].status = "passed"

\* a variant that moves every child one step on instead of setting it
UnlockChildrenStepwise(msd, n) ==
  [msd EXCEPT !.nodes =
     [c \in DOMAIN msd.nodes |->
        IF c \in Children(msd.edges, n)
          THEN [msd.nodes[c] EXCEPT !.status =
                  IF msd.nodes[c].status = "locked" THEN "not_started"
                  ELSE "in_progress"]
          ELSE msd.nodes[c]]]

\* "Unlock child nodes": every child of n is set to not_started
UnlockChildren(msd, n) ==
  [msd EXCEPT !.nodes =
     [c \in DOMAIN msd.nodes |->
        IF c \in Children(msd.edges, n)
          THEN [msd.nodes[c] EXCEPT !.status = "not_started"]
          ELSE msd.nodes[c]]]

\* submitAnswer: session data after the call
MockSubmitAnswer(msd, n, qid, passed) ==
  IF n \notin DOMAIN msd.nodes THEN msd
  ELSE
    LET qs == GradeQuestions(msd.nodes[n].questions, qid, passed)
        m1 == [msd EXCEPT !.nodes[n].questions = qs]
    IN IF AllPassed(qs)
         THEN UnlockChildren([m1 EXCEPT !.nodes[n].status = "completed"], n)
         ELSE m1

\* submitAnswer: the passed field of the response
MockSubmitPassed(msd, n, passed) ==
  IF n \notin DOMAIN msd.nodes THEN TRUE ELSE passed

\* submitAnswer: the all_passed field of the response
MockSubmitAllPassed(msd, n, qid, passed) ==
  IF n \notin DOMAIN msd.nodes THEN TRUE
  ELSE AllPassed(GradeQuestions(msd.nodes[n].questions, qid, passed))

\* updateNodeStatus: session data after the call
MockUpdateNodeStatus(msd, n, status) ==
  IF n \notin DOMAIN msd.nodes THEN msd
  ELSE
    LET m1 == [msd EXCEPT !.nodes[n].status = status]
    IN IF status = "completed" THEN UnlockChildren(m1, n) ELSE m1

\* checkNodeUnlockable: the unlockable field of the response
MockCheckNodeUnlockable(msd, n) == TRUE

\* getProgress: status per node as the caller reads it from the response
MockGetProgress(msd) == [n \in DOMAIN msd.nodes |-> msd.nodes[n].status]

\* ------------------------------------------------------- mindmap.tsx
\* handleTopicSelect: status of the processed nodes of the local map
ProcessedStatus(nodeList) ==
  [n \in Range(nodeList) |-> IF n = "root" THEN "in_progress" ELSE "locked"]

\* focusOnNode: the visible nodes with their status
FocusVisibleNodes(full, edgeList, nodeId) ==
  [n \in ({nodeId} \cup Children(edgeList, nodeId)) \cap DOMAIN full |->
     IF n # nodeId /\ full[n] = "locked" /\ nodeId \in DOMAIN full
        /\ full[nodeId] = "completed"
       THEN "not_started"
       ELSE full[n]]

\* focusOnNode: the visible edges
FocusVisibleEdges(edgeList, nodeId) == {e \in Range(edgeList) : e.source = nodeId}

\* focusOnNode returns early on an empty id or an empty map
CanFocus(full, edgeList, nodeId) ==
  nodeId # NULL /\ DOMAIN full # {} /\ Len(edgeList) # 0

\* node.position
Pos(x, y) == [x |-> x, y |-> y]

NoPositions == [n \in {} |-> Pos(0, 0)]

\* focusOnNode: directChildren, in the order of the edge list
DirectChildren(edgeList, nodeId) ==
  LET out == SelectSeq(edgeList, LAMBDA e : e.source = nodeId)
  IN [i \in 1..Len(out) |-> out[i].target]

\* refreshProgress: functional update of a node list from the progress data
ApplyProgress(list, progress) ==
  [n \in DOMAIN list |-> IF n \in DOMAIN progress THEN progress[n] ELSE list[n]]

\* handleNodeClick / handleSubmitAnswer: functional update of one status
SetStatus(list, n, status) ==
  [m \in DOMAIN list |-> IF m = n THEN status ELSE list[m]]

\* navigateToParent: the first edge that points to the focused node
ParentEdgeIndex(edgeList, nodeId) ==
  IF \E i \in 1..Len(edgeList) : edgeList[i].target = nodeId
    THEN CHOOSE i \in 1..Len(edgeList) :
           edgeList[i].target = nodeId
           /\ \A j \in 1..(i - 1) : edgeList[j].target # nodeId
    ELSE 0

\* A pending continuation: the handler position (pc), its arguments, the
\* response it waits for and the state its closure holds.
Timer(pc, n, qid, passed, allp, dbl) ==
  [pc |-> pc, node |-> n, qid |-> qid, passed |-> passed, allp |-> allp,
   dbl |-> dbl, cFull |-> fullNodes, cFocused |-> focusedNode,
   net |-> "none", cont |-> "none"]

\* An API function is called: with backendAvailable the request to /api is
\* in flight (kind: the function, cont: the handler position that awaits it)
\* and the mock session is not touched yet; without it the mock part runs at
\* once (session becomes mocked) and mockSuccess schedules the continuation.
CallApi(base, mocked, cont, kind) ==
  IF backendAvailable
    THEN /\ mockSessionData' = mockSessionData
         /\ timers' = Append(base, [cont EXCEPT !.pc = "net", !.net = kind,
                                                 !.cont = cont.pc])
    ELSE /\ mockSessionData' = mocked
         /\ timers' = Append(base, cont)

\* the mock part of the API function of request t, run after the catch block
MockAfterFailure(msd, t, edgeList) ==
  CASE t.net = "init" -> MockInitializeSession(t.cFull, edgeList)
    [] t.net = "update" -> MockUpdateNodeStatus(msd, t.node, "in_progress")
    [] t.net = "generate" -> MockGenerateQuestions(msd, t.node)
    [] t.net = "submit" -> MockSubmitAnswer(msd, t.node, t.qid, t.passed)
    [] OTHER -> msd

\* the continuation that mockSuccess schedules for request t, with the
\* response of the mock part (t.passed holds "the answer is long enough")
ContAfterFailure(msd, t) ==
  [t EXCEPT !.pc = t.cont, !.net = "none",
            !.passed = IF t.net = "submit"
                         THEN MockSubmitPassed(msd, t.node, t.passed)
                         ELSE t.passed,
            !.allp = IF t.net = "submit"
                       THEN MockSubmitAllPassed(msd, t.node, t.qid, t.passed)
                       ELSE t.allp]

\* the modal covers the map while it is shown (selectedNode && isModalOpen)
ModalShown == selectedNode # NULL /\ isModalOpen

\* ------------------------------------------------- services/api.ts
\* Two parts of the served map root -> input-processing -> tokenization:
\* a node with its locked child, and the two nodes that start unlocked.
CtxNodes == <<"input-processing", "tokenization">>

CtxEdges == << Edge("input-processing", "tokenization") >>

OpenNodes == <<"root", "input-processing">>

\* ApiService.getMindMap: the served edges that lead to a node of nodeList
ApiGetMindMap(nodeList) ==
  SelectSeq(<< Edge("root", "input-processing"),
               Edge("input-processing", "tokenization") >>,
            LAMBDA e : e.target \in Range(nodeList))

\* ApiService.createMindMap: maps the service may answer with, as lists of
\* nodes and edges: root before its child, the child listed first, and two
\* nodes without an edge
CreatedMaps ==
  { [nodes |-> <<"root", "input-processing">>,
     edges |-> << Edge("root", "input-processing") >>],
    [nodes |-> <<"input-processing", "root">>,
     edges |-> << Edge("root", "input-processing") >>],
    [nodes |-> <<"root", "input-processing">>, edges |-> << >>] }

\* ApiService.getProgress: the progress a session starts with, for the nodes
\* of nodeList (root completed, input-processing not_started, the rest locked)
ApiGetProgress(nodeList) ==
  [n \in Range(nodeList) |->
     [status |-> IF n = "root" THEN "completed"
                 ELSE IF n = "input-processing" THEN "not_started"
                 ELSE "locked",
      unlockable |-> n \in {"root", "input-processing"},
      questions |-> << >>]]

\* ApiService.generateQuestions: questionsMap[nodeId]
ApiGenerateQuestions(n) ==
  [i \in 1..NumApiQuestions |->
     [id |-> QuestionId(i, n), status |-> "unanswered", attempts |-> 0]]

\* ------------------------------------------------ LearningContext.tsx
NoProgress == [n \in {} |-> [status |-> "locked", unlockable |-> FALSE,
                             questions |-> << >>]]

\* generateQuestions: updatedProgress
UpdatedProgress(progress, n) ==
  [progress EXCEPT ![n].status = "in_progress", ![n].unlockable = TRUE]

\* generateQuestions: newProgress
NewProgress(updatedProgress, n, questions) ==
  [updatedProgress EXCEPT ![n].questions = questions]

\* answerQuestion: updatedQuestions
UpdatedQuestions(qs, qid, correct) ==
  [k \in 1..Len(qs) |->
     IF qs[k].id = qid
       THEN [qs[k] EXCEPT !.status = IF correct THEN "passed" ELSE "failed",
                          !.attempts = qs[k].attempts + 1]
       ELSE qs[k]]

\* a variant that keeps the answered node and takes the questions of every
\* other node back to unanswered
AnsweredProgressAlone(progress, n, qid, correct) ==
  [m \in DOMAIN progress |->
     IF m = n
       THEN [progress[n] EXCEPT
               !.questions = UpdatedQuestions(progress[n].questions, qid, correct)]
       ELSE [progress[m] EXCEPT
               !.questions = [k \in 1..Len(progress[m].questions) |->
                                [progress[m].questions[k] EXCEPT
                                   !.status = "unanswered", !.attempts = 0]]]]

\* answerQuestion: the progress map handed to setNodeProgress
AnsweredProgress(progress, n, qid, correct) ==
  [progress EXCEPT ![n].questions = UpdatedQuestions(progress[n].questions, qid, correct)]

\* updateNodeStatus: "Already in desired state"
AlreadyInState(progress, n, status) ==
  n \in DOMAIN progress /\ progress[n].status = status

\* updateNodeStatus: the functional update made on success
StatusUpdated(prevProgress, n, status) ==
  [prevProgress EXCEPT ![n].status = status]

\* before: the status the node had in the render that made the call
Call(op, n, status, progress, before) ==
  [op |-> op, node |-> n, status |-> status, progress |-> progress,
   before |-> before]

\* updateNodeStatus as a whole, when nothing else runs during its await
UpdateNodeStatusResult(progress, n, status, success) ==
  IF AlreadyInState(progress, n, status) THEN progress
  ELSE IF success THEN StatusUpdated(progress, n, status)
  ELSE progress

NoGraded ==
  [n \in Range(CtxNodes) \cup Range(OpenNodes) |-> [i \in 1..NumApiQuestions |-> 0]]

\* no call of arrangeNodesHierarchically is running
ArrangeIdle ==
  /\ arrNodes = << >>
  /\ arrEdges = << >>
  /\ level = EmptyFn
  /\ queue = << >>
  /\ arrPc = "idle"

Init ==
  /\ topic = NULL
  /\ fullNodes = EmptyFn
  /\ fullEdges = << >>
  /\ nodes = EmptyFn
  /\ edges = {}
  /\ selectedNode = NULL
  /\ focusedNode = NULL
  /\ lastClickedNode = NULL
  /\ nodeQuestions = << >>
  /\ isModalOpen = FALSE
  /\ mockSessionData = NoSession
  /\ timers = << >>
  /\ backendAvailable = FALSE
  /\ checkPending = TRUE
  /\ sessionId = NULL
  /\ nodeProgress = NoProgress
  /\ mapEdges = << >>
  /\ calls = << >>
  /\ graded = NoGraded
  /\ positions = NoPositions
  /\ nodePath = << >>
  /\ focusedNodeId = NULL
  /\ ArrangeIdle

\* handleTopicSelect('Transformer Architecture') up to its first await; the
\* handler holds processedNodes (kept in cFull), not the fullNodes of a render
TopicSelect(nodeList, edgeList) ==
  /\ topic = NULL
  /\ topic' = "Transformer Architecture"
  /\ fullNodes' = ProcessedStatus(nodeList)
  /\ fullEdges' = edgeList
  /\ focusedNode' = "root"
  /\ nodes' = [n \in ({"root"} \cup Children(edgeList, "root")) \cap Range(nodeList)
                 |-> ProcessedStatus(nodeList)[n]]
  /\ edges' = {e \in Range(edgeList) : e.source = "root"}
  /\ CallApi(timers, MockInitializeSession(ProcessedStatus(nodeList), edgeList),
             [Timer("topicInit", "root", NoQid, FALSE, FALSE, FALSE)
                EXCEPT !.cFull = ProcessedStatus(nodeList)],
             "init")
  /\ UNCHANGED << selectedNode, lastClickedNode, nodeQuestions, isModalOpen >>

\* handleTopicSelect after initializeSession: updateNodeStatus(root, in_progress)
TopicInitDone ==
  /\ timers # << >> /\ Head(timers).pc = "topicInit"
  /\ CallApi(Tail(timers),
             MockUpdateNodeStatus(mockSessionData, "root", "in_progress"),
             [Head(timers) EXCEPT !.pc = "topicUpd"], "update")
  /\ UNCHANGED clientVars

\* handleTopicSelect after updateNodeStatus: nothing left but the finally block
TopicUpdDone ==
  /\ timers # << >> /\ Head(timers).pc = "topicUpd"
  /\ timers' = Tail(timers)
  /\ UNCHANGED << clientVars, mockSessionData >>

\* handleNodeClick from the double-click test on, for the handler t (its
\* closure in t.cFull, the outcome of the double-click test in t.dbl).
\* newFull and newNodes are the lists after the functional updates made before.
ClickAfterStatus(t, newFull, newNodes) ==
  /\ lastClickedNode' = t.node
  /\ fullNodes' = newFull
  /\ IF t.dbl
       THEN /\ CallApi(IF t.pc = "clickUpd" THEN Tail(timers) ELSE timers,
                       MockGenerateQuestions(mockSessionData, t.node),
                       [t EXCEPT !.pc = "clickGen"], "generate")
            /\ nodes' = newNodes
            /\ UNCHANGED << focusedNode, edges >>
       ELSE /\ timers' = IF t.pc = "clickUpd" THEN Tail(timers) ELSE timers
            /\ IF CanFocus(t.cFull, fullEdges, t.node)
                 THEN /\ focusedNode' = t.node
                      /\ nodes' = FocusVisibleNodes(t.cFull, fullEdges, t.node)
                      /\ edges' = FocusVisibleEdges(fullEdges, t.node)
                 ELSE /\ nodes' = newNodes
                      /\ UNCHANGED << focusedNode, edges >>
            /\ UNCHANGED mockSessionData

\* a handler that lets every click through
ClickNeverIgnored(status) == FALSE

\* handleNodeClick: the click on a node shown with this status is dropped
ClickIgnored(status) == status = "locked"

\* handleNodeClick up to its first await (or to its end when nothing is
\* awaited); within300: the click comes within 300 ms of the last one
ClickNode(n, within300, cap) ==
  /\ topic # NULL
  /\ ~ModalShown
  /\ n \in DOMAIN nodes
  /\ IF ClickIgnored(nodes[n])
       THEN UNCHANGED vars
       ELSE
         LET t == Timer("click", n, NoQid, FALSE, FALSE,
                        n = lastClickedNode /\ within300)
         IN
         /\ selectedNode' = n
         /\ UNCHANGED << topic, fullEdges, nodeQuestions, isModalOpen >>
         /\ IF nodes[n] \notin {"completed", "in_progress"}
              THEN /\ Len(timers) < cap
                   /\ CallApi(timers,
                              MockUpdateNodeStatus(mockSessionData, n, "in_progress"),
                              [t EXCEPT !.pc = "clickUpd"], "update")
                   /\ UNCHANGED << fullNodes, nodes, edges, focusedNode,
                                   lastClickedNode >>
              ELSE /\ (t.dbl => Len(timers) < cap)
                   /\ ClickAfterStatus(t, fullNodes, nodes)

\* handleNodeClick after await updateNodeStatus
ClickUpdDone ==
  /\ timers # << >> /\ Head(timers).pc = "clickUpd"
  /\ LET t == Head(timers) IN
       ClickAfterStatus(t, SetStatus(fullNodes, t.node, "in_progress"),
                        SetStatus(nodes, t.node, "in_progress"))
  /\ UNCHANGED << topic, fullEdges, selectedNode, nodeQuestions, isModalOpen >>

\* handleNodeClick after await generateQuestions: show the modal
ClickGenDone ==
  /\ timers # << >> /\ Head(timers).pc = "clickGen"
  /\ nodeQuestions' =
       [i \in 1..NumMockQuestions |->
          [id |-> QuestionId(i, Head(timers).node), status |-> "not_started"]]
  /\ isModalOpen' = TRUE
  /\ timers' = Tail(timers)
  /\ UNCHANGED << topic, fullNodes, fullEdges, nodes, edges, selectedNode,
                  focusedNode, lastClickedNode, mockSessionData >>

\* NodeDetailModal onClose
CloseModal ==
  /\ ModalShown
  /\ isModalOpen' = FALSE
  /\ UNCHANGED << topic, fullNodes, fullEdges, nodes, edges, selectedNode,
                  focusedNode, lastClickedNode, nodeQuestions, mockSessionData,
                  timers >>

\* NodeDetailModal.handleSubmit(questionId) -> handleSubmitAnswer up to await
\* submitAnswer; longEnough: the answer has at least 5 characters
SubmitClick(i, longEnough, cap, maxAttempts) ==
  /\ ModalShown
  /\ i \in 1..Len(nodeQuestions)
  /\ Len(timers) < cap
  /\ LET qid == nodeQuestions[i].id
         qs == IF selectedNode \in DOMAIN mockSessionData.nodes
                 THEN mockSessionData.nodes[selectedNode].questions ELSE << >>
         k == FindIndex(qs, qid)
     IN
     /\ k # 0 => qs[k].attempts < maxAttempts
     /\ CallApi(timers,
                MockSubmitAnswer(mockSessionData, selectedNode, qid, longEnough),
                Timer("submit", selectedNode, qid,
                      MockSubmitPassed(mockSessionData, selectedNode, longEnough),
                      MockSubmitAllPassed(mockSessionData, selectedNode, qid, longEnough),
                      FALSE),
                "submit")
  /\ UNCHANGED clientVars

\* handleSubmitAnswer after await submitAnswer
SubmitDone ==
  /\ timers # << >> /\ Head(timers).pc = "submit"
  /\ LET t == Head(timers) IN
       /\ nodeQuestions' =
            [i \in 1..Len(nodeQuestions) |->
               IF nodeQuestions[i].id = t.qid
                 THEN [nodeQuestions[i] EXCEPT
                         !.status = IF t.passed THEN "passed" ELSE "failed"]
                 ELSE nodeQuestions[i]]
       /\ IF t.allp
            THEN /\ fullNodes' = SetStatus(fullNodes, t.node, "completed")
                 /\ nodes' = SetStatus(nodes, t.node, "completed")
                 /\ CallApi(Tail(timers), mockSessionData,
                            [t EXCEPT !.pc = "progress"], "progress")
            ELSE /\ timers' = Tail(timers)
                 /\ UNCHANGED << fullNodes, nodes, mockSessionData >>
  /\ UNCHANGED << topic, fullEdges, edges, selectedNode, focusedNode,
                  lastClickedNode, isModalOpen >>

\* refreshProgress after await getProgress
ProgressDone ==
  /\ timers # << >> /\ Head(timers).pc = "progress"
  /\ LET t == Head(timers)
         progress == MockGetProgress(mockSessionData)
     IN
     /\ fullNodes' = ApplyProgress(fullNodes, progress)
     /\ IF t.cFocused # NULL /\ CanFocus(t.cFull, fullEdges, t.cFocused)
          THEN /\ focusedNode' = t.cFocused
               /\ nodes' = FocusVisibleNodes(t.cFull, fullEdges, t.cFocused)
               /\ edges' = FocusVisibleEdges(fullEdges, t.cFocused)
          ELSE /\ nodes' = ApplyProgress(nodes, progress)
               /\ UNCHANGED << focusedNode, edges >>
  /\ timers' = Tail(timers)
  /\ UNCHANGED << topic, fullEdges, selectedNode, lastClickedNode, nodeQuestions,
                  isModalOpen, mockSessionData >>

\* navigateToParent ("Back to Parent" button)
NavigateToParent ==
  /\ topic # NULL
  /\ ~ModalShown
  /\ focusedNode \notin {NULL, "root"}
  /\ ParentEdgeIndex(fullEdges, focusedNode) # 0
  /\ LET p == fullEdges[ParentEdgeIndex(fullEdges, focusedNode)].source IN
       /\ CanFocus(fullNodes, fullEdges, p)
       /\ focusedNode' = p
       /\ nodes' = FocusVisibleNodes(fullNodes, fullEdges, p)
       /\ edges' = FocusVisibleEdges(fullEdges, p)
  /\ UNCHANGED << topic, fullNodes, fullEdges, selectedNode, lastClickedNode,
                  nodeQuestions, isModalOpen, mockSessionData, timers >>

\* checkBackendAvailability: GET / has been answered within the timeout
BackendCheckDone ==
  /\ checkPending
  /\ checkPending' = FALSE
  /\ backendAvailable' = TRUE
  /\ UNCHANGED << clientVars, mockSessionData, timers >>

\* a catch block that leaves the flag as it is
FlagKept(flag) == flag

\* the value the catch block of an API function gives backendAvailable
FlagAfterFailure(flag) == FALSE

\* the request to /api of an API function fails: the catch block clears
\* backendAvailable and the function goes on with its mock part
RequestFailed ==
  /\ timers # << >> /\ Head(timers).pc = "net"
  /\ backendAvailable' = FlagAfterFailure(backendAvailable)
  /\ mockSessionData' = MockAfterFailure(mockSessionData, Head(timers), fullEdges)
  /\ timers' = Append(Tail(timers), ContAfterFailure(mockSessionData, Head(timers)))
  /\ UNCHANGED << clientVars, checkPending >>

\* The client on the prerequisite chain.
Next ==
  \/ TopicSelect(ChainNodes, ChainEdges) /\ UNCHANGED restVars
  \/ TopicInitDone /\ UNCHANGED restVars
  \/ TopicUpdDone /\ UNCHANGED restVars
  \/ \E n \in Range(ChainNodes), within300 \in BOOLEAN :
       ClickNode(n, within300, MaxPending) /\ UNCHANGED restVars
  \/ ClickUpdDone /\ UNCHANGED restVars
  \/ ClickGenDone /\ UNCHANGED restVars
  \/ CloseModal /\ UNCHANGED restVars
  \/ \E i \in 1..NumMockQuestions, longEnough \in BOOLEAN :
       SubmitClick(i, longEnough, MaxPending, MaxAttempts) /\ UNCHANGED restVars
  \/ SubmitDone /\ UNCHANGED restVars
  \/ ProgressDone /\ UNCHANGED restVars
  \/ NavigateToParent /\ UNCHANGED restVars

Spec == Init /\ [][Next]_vars

\* The client on the map with a shared prerequisite, used by a learner who
\* answers well, finishes a quiz before closing it and does not reopen the
\* quiz of a node shown as completed.
NextDiamond ==
  \/ TopicSelect(DiamondNodes, DiamondEdges) /\ UNCHANGED restVars
  \/ TopicInitDone /\ UNCHANGED restVars
  \/ TopicUpdDone /\ UNCHANGED restVars
  \/ \E n \in Range(DiamondNodes), within300 \in BOOLEAN :
       /\ (n \in DOMAIN nodes /\ nodes[n] = "completed")
            => ~(n = lastClickedNode /\ within300)
       /\ ClickNode(n, within300, MaxPending)
       /\ UNCHANGED restVars
  \/ ClickUpdDone /\ UNCHANGED restVars
  \/ ClickGenDone /\ UNCHANGED restVars
  \/ AllPassed(nodeQuestions) /\ CloseModal /\ UNCHANGED restVars
  \/ \E i \in 1..NumMockQuestions :
       SubmitClick(i, TRUE, MaxPending, MaxAttempts) /\ UNCHANGED restVars
  \/ SubmitDone /\ UNCHANGED restVars
  \/ ProgressDone /\ UNCHANGED restVars
  \/ NavigateToParent /\ UNCHANGED restVars

SpecDiamond == Init /\ [][NextDiamond]_vars

\* The client used by a learner who stays on the root node and presses
\* Submit again before the previous answer has come back.  The root is
\* in_progress from the start, so its click never awaits updateNodeStatus.
NextHasty ==
  \/ TopicSelect(ChainNodes, ChainEdges) /\ UNCHANGED restVars
  \/ TopicInitDone /\ UNCHANGED restVars
  \/ TopicUpdDone /\ UNCHANGED restVars
  \/ \E within300 \in BOOLEAN :
       ClickNode("root", within300, MaxPending) /\ UNCHANGED restVars
  \/ ClickGenDone /\ UNCHANGED restVars
  \/ CloseModal /\ UNCHANGED restVars
  \/ \E i \in 1..NumMockQuestions, longEnough \in BOOLEAN :
       SubmitClick(i, longEnough, MaxOverlap, MaxOverlap) /\ UNCHANGED restVars
  \/ SubmitDone /\ UNCHANGED restVars
  \/ ProgressDone /\ UNCHANGED restVars

SpecHasty == Init /\ [][NextHasty]_vars

\* The client on the prerequisite chain, served by a host that answers GET /
\* while nothing answers the requests to /api: the availability check can
\* succeed at any moment, and every request made after it fails.
NextFallback ==
  \/ TopicSelect(ChainNodes, ChainEdges) /\ UNCHANGED restVars
  \/ TopicInitDone /\ UNCHANGED restVars
  \/ TopicUpdDone /\ UNCHANGED restVars
  \/ \E n \in Range(ChainNodes), within300 \in BOOLEAN :
       ClickNode(n, within300, MaxPending) /\ UNCHANGED restVars
  \/ ClickUpdDone /\ UNCHANGED restVars
  \/ ClickGenDone /\ UNCHANGED restVars
  \/ CloseModal /\ UNCHANGED restVars
  \/ \E i \in 1..NumMockQuestions, longEnough \in BOOLEAN :
       SubmitClick(i, longEnough, MaxPending, MaxAttempts) /\ UNCHANGED restVars
  \/ SubmitDone /\ UNCHANGED restVars
  \/ ProgressDone /\ UNCHANGED restVars
  \/ NavigateToParent /\ UNCHANGED restVars
  \/ BackendCheckDone /\ UNCHANGED << ctxVars, layoutVars >>
  \/ RequestFailed /\ UNCHANGED << ctxVars, layoutVars >>

SpecFallback == Init /\ [][NextFallback]_vars

\* The client on the prerequisite chain, used by a learner who clicks any
\* node at any time, answers well and finishes a quiz before closing it.
NextBrowse ==
  \/ TopicSelect(ChainNodes, ChainEdges) /\ UNCHANGED restVars
  \/ TopicInitDone /\ UNCHANGED restVars
  \/ TopicUpdDone /\ UNCHANGED restVars
  \/ \E n \in Range(ChainNodes), within300 \in BOOLEAN :
       ClickNode(n, within300, MaxPending) /\ UNCHANGED restVars
  \/ ClickUpdDone /\ UNCHANGED restVars
  \/ ClickGenDone /\ UNCHANGED restVars
  \/ AllPassed(nodeQuestions) /\ CloseModal /\ UNCHANGED restVars
  \/ \E i \in 1..NumMockQuestions :
       SubmitClick(i, TRUE, MaxPending, MaxAttempts) /\ UNCHANGED restVars
  \/ SubmitDone /\ UNCHANGED restVars
  \/ ProgressDone /\ UNCHANGED restVars
  \/ NavigateToParent /\ UNCHANGED restVars

SpecBrowse == Init /\ [][NextBrowse]_vars

\* The client on the same host, used by a learner who stays on the root
\* node, answers well and finishes a quiz before closing it.
NextProbe ==
  \/ TopicSelect(ChainNodes, ChainEdges) /\ UNCHANGED restVars
  \/ TopicInitDone /\ UNCHANGED restVars
  \/ TopicUpdDone /\ UNCHANGED restVars
  \/ \E within300 \in BOOLEAN :
       ClickNode("root", within300, MaxPending) /\ UNCHANGED restVars
  \/ ClickGenDone /\ UNCHANGED restVars
  \/ AllPassed(nodeQuestions) /\ CloseModal /\ UNCHANGED restVars
  \/ \E i \in 1..NumMockQuestions :
       SubmitClick(i, TRUE, MaxPending, MaxAttempts) /\ UNCHANGED restVars
  \/ SubmitDone /\ UNCHANGED restVars
  \/ ProgressDone /\ UNCHANGED restVars
  \/ BackendCheckDone /\ UNCHANGED << ctxVars, layoutVars >>
  \/ RequestFailed /\ UNCHANGED << ctxVars, layoutVars >>

SpecProbe == Init /\ [][NextProbe]_vars

\* ------------------------------------- LearningContext.tsx: operations
\* initializeSession: the session id is stored and the progress is loaded
InitializeSession(nodeList) ==
  /\ sessionId = NULL
  /\ sessionId' = "sid"
  /\ nodeProgress' = ApiGetProgress(nodeList)
  /\ mapEdges' = ApiGetMindMap(nodeList)
  /\ UNCHANGED << calls, graded >>

\* generateQuestions(nodeId) up to await ApiService.updateNodeStatus
GenerateQuestions(n) ==
  /\ sessionId # NULL
  /\ n \in DOMAIN nodeProgress
  /\ Len(calls) < MaxCtxCalls
  /\ nodeProgress' = UpdatedProgress(nodeProgress, n)
  /\ calls' = Append(calls, Call("generateQuestions", n, "in_progress",
                                  UpdatedProgress(nodeProgress, n),
                                  nodeProgress[n].status))
  /\ UNCHANGED << sessionId, mapEdges, graded >>

\* generateQuestions after await ApiService.updateNodeStatus and await
\* ApiService.generateQuestions; success is the answer of the status update,
\* which the function does not look at
GenerateDone(success) ==
  /\ calls # << >> /\ Head(calls).op = "generateQuestions"
  /\ LET c == Head(calls) IN
       /\ nodeProgress' = NewProgress(c.progress, c.node, ApiGenerateQuestions(c.node))
       /\ graded' = [graded EXCEPT ![c.node] = [i \in 1..NumApiQuestions |-> 0]]
  /\ calls' = Tail(calls)
  /\ UNCHANGED << sessionId, mapEdges >>

\* answerQuestion(nodeId, questionId, answer); ApiService.submitAnswer grades
\* locally, so the call and its continuation run in one task
AnswerQuestion(n, i, correct) ==
  /\ sessionId # NULL
  /\ n \in DOMAIN nodeProgress
  /\ i \in 1..Len(nodeProgress[n].questions)
  /\ nodeProgress[n].questions[i].attempts < MaxCtxAttempts
  /\ graded[n][i] < MaxCtxAttempts
  /\ nodeProgress' = AnsweredProgress(nodeProgress, n, QuestionId(i, n), correct)
  /\ graded' = [graded EXCEPT ![n][i] = graded[n][i] + 1]
  /\ UNCHANGED << sessionId, mapEdges, calls >>

\* updateNodeStatus(nodeId, status) up to await ApiService.updateNodeStatus,
\* or to its end when the node already has the status
UpdateNodeStatus(n, status) ==
  /\ sessionId # NULL
  /\ n \in DOMAIN nodeProgress
  /\ IF AlreadyInState(nodeProgress, n, status)
       THEN UNCHANGED << sessionId, nodeProgress, mapEdges, calls, graded >>
       ELSE /\ Len(calls) < MaxCtxCalls
            /\ calls' = Append(calls, Call("updateNodeStatus", n, status, NoProgress,
                                         nodeProgress[n].status))
            /\ UNCHANGED << sessionId, nodeProgress, mapEdges, graded >>

\* updateNodeStatus after await ApiService.updateNodeStatus; success is the
\* answer of the backend
UpdateDone(success) ==
  /\ calls # << >> /\ Head(calls).op = "updateNodeStatus"
  /\ LET c == Head(calls) IN
       nodeProgress' = IF success
                         THEN StatusUpdated(nodeProgress, c.node, c.status)
                         ELSE nodeProgress
  /\ calls' = Tail(calls)
  /\ UNCHANGED << sessionId, mapEdges, graded >>

\* setMindMap: initialProgress, from the node list alone
InitialProgress(newNodes, newEdges) ==
  [n \in Range(newNodes) |->
     [status |-> IF n = newNodes[1] THEN "not_started" ELSE "locked",
      questions |-> << >>,
      unlockable |-> n = newNodes[1]]]

\* MindMap.createNewMindMap after await ApiService.createMindMap (which
\* throws without a stored session id): setMindMap(result.nodes, result.edges)
SetMindMap(newNodes, newEdges) ==
  /\ sessionId # NULL
  /\ mapEdges' = newEdges
  /\ nodeProgress' = InitialProgress(newNodes, newEdges)
  /\ graded' = NoGraded
  /\ UNCHANGED << sessionId, calls >>

\* The provider, its operations called by the consuming components.
NextCtx ==
  \/ InitializeSession(CtxNodes) /\ UNCHANGED pageVars
  \/ \E n \in Range(CtxNodes) : GenerateQuestions(n) /\ UNCHANGED pageVars
  \/ \E success \in BOOLEAN : GenerateDone(success) /\ UNCHANGED pageVars
  \/ \E n \in Range(CtxNodes), i \in 1..NumApiQuestions, correct \in BOOLEAN :
       AnswerQuestion(n, i, correct) /\ UNCHANGED pageVars
  \/ \E n \in Range(CtxNodes), status \in Status :
       UpdateNodeStatus(n, status) /\ UNCHANGED pageVars
  \/ \E success \in BOOLEAN : UpdateDone(success) /\ UNCHANGED pageVars

SpecCtx == Init /\ [][NextCtx]_vars

\* The provider as the node cards use it on the two nodes that start
\* unlocked: questions are requested and answered, a card's own request
\* blocks only that card.
NextCtxOpen ==
  \/ InitializeSession(OpenNodes) /\ UNCHANGED pageVars
  \/ \E n \in Range(OpenNodes) : GenerateQuestions(n) /\ UNCHANGED pageVars
  \/ \E success \in BOOLEAN : GenerateDone(success) /\ UNCHANGED pageVars
  \/ \E n \in Range(OpenNodes), i \in 1..NumApiQuestions, correct \in BOOLEAN :
       AnswerQuestion(n, i, correct) /\ UNCHANGED pageVars

SpecCtxOpen == Init /\ [][NextCtxOpen]_vars

\* The provider when the learner has new maps created and works on them.
NextCtxCreate ==
  \/ InitializeSession(OpenNodes) /\ UNCHANGED pageVars
  \/ \E m \in CreatedMaps : SetMindMap(m.nodes, m.edges) /\ UNCHANGED pageVars
  \/ \E n \in Range(OpenNodes) : GenerateQuestions(n) /\ UNCHANGED pageVars
  \/ \E success \in BOOLEAN : GenerateDone(success) /\ UNCHANGED pageVars
  \/ \E n \in Range(OpenNodes), i \in 1..NumApiQuestions, correct \in BOOLEAN :
       AnswerQuestion(n, i, correct) /\ UNCHANGED pageVars

SpecCtxCreate == Init /\ [][NextCtxCreate]_vars

\* The provider driven through updateNodeStatus alone, with any status
\* requested for either node and either answer of the service.
NextCtxStatus ==
  \/ InitializeSession(CtxNodes) /\ UNCHANGED pageVars
  \/ \E n \in Range(CtxNodes), status \in Status :
       UpdateNodeStatus(n, status) /\ UNCHANGED pageVars
  \/ \E success \in BOOLEAN : UpdateDone(success) /\ UNCHANGED pageVars

SpecCtxStatus == Init /\ [][NextCtxStatus]_vars

\* ------------------------------------------------ Part III: the layout
\* ids of the children of hub in the maps below
KidIds == <<"c1", "c2", "c3", "c4", "c5", "c6", "c7", "c8", "c9">>

\* A map with k leaves under hub; hub has the two parents root and alt, and
\* the edge from root comes first in the edge list.
LayoutNodes(k) == <<"root", "alt", "hub">> \o SubSeq(KidIds, 1, k)

LayoutEdges(k) ==
  << Edge("root", "hub"), Edge("root", "alt"), Edge("alt", "hub") >>
    \o [i \in 1..k |-> Edge("hub", KidIds[i])]

\* the statuses of the map as loaded, and with root and hub completed while
\* the leaves are still locked
LayoutStatuses(k) ==
  { ProcessedStatus(LayoutNodes(k)),
    [n \in Range(LayoutNodes(k)) |->
       IF n \in {"root", "hub"} THEN "completed"
       ELSE IF n = "alt" THEN "not_started" ELSE "locked"] }

\* node.position in the data of the map (fullNodes keeps it unchanged)
DatasetPosition(n) ==
  CASE n = "root" -> Pos(0, 0)
    [] n = "alt" -> Pos(350, -200)
    [] n = "hub" -> Pos(-350, -200)
    [] OTHER -> Pos(-550 + 100 * (CHOOSE i \in 1..Len(KidIds) : KidIds[i] = n), -300)

\* mindmap.tsx focusOnNode: finalVisibleNodes, the positions
FocusPositions(full, edgeList, nodeId) ==
  LET directChildren == DirectChildren(edgeList, nodeId)
      visible == ({nodeId} \cup Range(directChildren)) \cap DOMAIN full
  IN [n \in visible |->
        IF Len(directChildren) <= 1 /\ nodeId \in DOMAIN full
          THEN IF n = nodeId THEN Pos(0, -100) ELSE Pos(0, 100)
          ELSE DatasetPosition(n)]

\* focusOnNode of mindmap.tsx as a whole
FocusOnNode(nodeId) ==
  /\ IF CanFocus(fullNodes, fullEdges, nodeId)
       THEN /\ focusedNode' = nodeId
            /\ nodes' = FocusVisibleNodes(fullNodes, fullEdges, nodeId)
            /\ edges' = FocusVisibleEdges(fullEdges, nodeId)
            /\ positions' = FocusPositions(fullNodes, fullEdges, nodeId)
       ELSE UNCHANGED << focusedNode, nodes, edges, positions >>
  /\ UNCHANGED << topic, fullNodes, fullEdges, selectedNode, lastClickedNode,
                  nodeQuestions, isModalOpen, mockSessionData, timers, netVars,
                  ctxVars, nodePath, focusedNodeId, arrangeVars >>

\* onNodesChange: the learner drags a rendered node to position p
DragNode(n, p) ==
  /\ n \in DOMAIN positions
  /\ positions' = [positions EXCEPT ![n] = p]
  /\ UNCHANGED << clientVars, mockSessionData, timers, netVars, ctxVars,
                  nodePath, focusedNodeId, arrangeVars >>

\* where a node is dropped
DragTargets == { Pos(40, 40) }

\* the variant with parent, focusOnNode: parentId
ParentId(edgeList, nodeId) ==
  IF ParentEdgeIndex(edgeList, nodeId) = 0 THEN NULL
  ELSE edgeList[ParentEdgeIndex(edgeList, nodeId)].source

\* a variant in which every parent of the focused node is shown
FocusVisibleNodesAllParents(full, edgeList, nodeId) ==
  [n \in ({nodeId} \cup Range(DirectChildren(edgeList, nodeId))
             \cup Parents(edgeList, nodeId)) \cap DOMAIN full |-> full[n]]

\* the variant with parent, focusOnNode: updatedVisibleNodes with their status
FocusVisibleNodesWithParent(full, edgeList, nodeId) ==
  LET directChildren == Range(DirectChildren(edgeList, nodeId))
      parentId == ParentId(edgeList, nodeId)
  IN [n \in ({nodeId} \cup directChildren \cup ({parentId} \ {NULL}))
               \cap DOMAIN full |->
        IF n # nodeId /\ n \in directChildren /\ full[n] = "locked"
           /\ nodeId \in DOMAIN full /\ full[nodeId] = "completed"
          THEN "not_started"
          ELSE full[n]]

\* the variant with parent, focusOnNode: visibleEdges
FocusVisibleEdgesWithParent(edgeList, nodeId) ==
  LET parentId == ParentId(edgeList, nodeId)
  IN {e \in Range(edgeList) :
        \/ e.source = nodeId
        \/ parentId # NULL /\ e.source = parentId /\ e.target = nodeId}

\* the variant with parent, focusOnNode: childPositions[directChildren[index]]
\* for n children (index from 0)
ChildPosition(n, index) ==
  LET width == 300
      colSpacing == 320
      rowSpacing == 250
      maxPerRow == 3
      topRowCount == (n + 1) \div 2
      bottomRowCount == n \div 2
      numRows == (n + maxPerRow - 1) \div maxPerRow
      row == index \div maxPerRow
      col == index % maxPerRow
      nodesInThisRow == IF row = numRows - 1 /\ n % maxPerRow # 0
                          THEN n % maxPerRow ELSE maxPerRow
  IN IF n = 1 THEN Pos(0, 300)
     ELSE IF n <= 3
       THEN Pos(index * width - ((n - 1) * width) \div 2, 250)
     ELSE IF n <= 6
       THEN IF index < topRowCount
              THEN Pos(index * colSpacing - ((topRowCount - 1) * colSpacing) \div 2,
                       230)
              ELSE Pos((index - topRowCount) * colSpacing
                         - ((bottomRowCount - 1) * colSpacing) \div 2,
                       230 + rowSpacing)
     ELSE Pos(col * colSpacing - ((nodesInThisRow - 1) * colSpacing) \div 2,
              230 + row * rowSpacing)

\* the variant with parent, focusOnNode: finalVisibleNodes, the positions
FocusPositionsWithParent(full, edgeList, nodeId) ==
  LET directChildren == DirectChildren(edgeList, nodeId)
      parentId == ParentId(edgeList, nodeId)
      visible == ({nodeId} \cup Range(directChildren) \cup ({parentId} \ {NULL}))
                   \cap DOMAIN full
      last(c) == CHOOSE i \in 1..Len(directChildren) :
                   /\ directChildren[i] = c
                   /\ \A j \in (i + 1)..Len(directChildren) : directChildren[j] # c
  IN [n \in visible |->
        IF nodeId \notin DOMAIN full THEN DatasetPosition(n)
        ELSE IF n = nodeId THEN Pos(0, 0)
        ELSE IF n \in Range(directChildren)
          THEN ChildPosition(Len(directChildren), last(n) - 1)
        ELSE Pos(0, -200)]

\* buildNodePath: the ancestors of cur along the first edge into each node,
\* put in front of path
RECURSIVE Ancestors(_, _, _, _)
Ancestors(full, edgeList, cur, path) ==
  IF cur = "root" \/ ParentId(edgeList, cur) = NULL
     \/ ParentId(edgeList, cur) \notin DOMAIN full
    THEN path
    ELSE Ancestors(full, edgeList, ParentId(edgeList, cur),
                   << ParentId(edgeList, cur) >> \o path)

\* buildNodePath
BuildNodePath(full, edgeList, nodeId) ==
  IF DOMAIN full = {} \/ Len(edgeList) = 0 THEN << >>
  ELSE LET start == IF nodeId # "root" /\ nodeId \in DOMAIN full
                      THEN << nodeId >> ELSE << >>
           path == Ancestors(full, edgeList, nodeId, start)
       IN IF Len(path) > 0 /\ path[1] # "root" /\ "root" \in DOMAIN full
            THEN << "root" >> \o path
            ELSE path

\* the variant with parent: the view focusOnNode(nodeId) leaves behind; the
\* call returns before any setter when the id or the map is empty
ViewAfterFocusWithParent(nodeId) ==
  IF CanFocus(fullNodes, fullEdges, nodeId)
    THEN [focusedNode |-> nodeId,
          nodePath |-> BuildNodePath(fullNodes, fullEdges, nodeId),
          nodes |-> FocusVisibleNodesWithParent(fullNodes, fullEdges, nodeId),
          edges |-> FocusVisibleEdgesWithParent(fullEdges, nodeId),
          positions |-> FocusPositionsWithParent(fullNodes, fullEdges, nodeId)]
    ELSE [focusedNode |-> focusedNode, nodePath |-> nodePath, nodes |-> nodes,
          edges |-> edges, positions |-> positions]

\* focusOnNode of the variant with parent as a whole
FocusOnNodeWithParent(nodeId) ==
  /\ focusedNode' = ViewAfterFocusWithParent(nodeId).focusedNode
  /\ nodePath' = ViewAfterFocusWithParent(nodeId).nodePath
  /\ nodes' = ViewAfterFocusWithParent(nodeId).nodes
  /\ edges' = ViewAfterFocusWithParent(nodeId).edges
  /\ positions' = ViewAfterFocusWithParent(nodeId).positions
  /\ UNCHANGED << topic, fullNodes, fullEdges, selectedNode, lastClickedNode,
                  nodeQuestions, isModalOpen, mockSessionData, timers, netVars,
                  ctxVars, focusedNodeId, arrangeVars >>

\* The component right after handleTopicSelect has loaded one of the maps:
\* root is focused and shown with its children at the positions of the data.
InitLayout ==
  \E k \in 0..MaxChildren :
    \E status \in LayoutStatuses(k) :
      /\ topic = "Transformer Architecture"
      /\ fullNodes = status
      /\ fullEdges = LayoutEdges(k)
      /\ focusedNode = "root"
      /\ nodes = [n \in {"root"} \cup Children(LayoutEdges(k), "root") |-> status[n]]
      /\ edges = {e \in Range(LayoutEdges(k)) : e.source = "root"}
      /\ positions = [n \in {"root"} \cup Children(LayoutEdges(k), "root") |->
                        DatasetPosition(n)]
      /\ selectedNode = NULL
      /\ lastClickedNode = NULL
      /\ nodeQuestions = << >>
      /\ isModalOpen = FALSE
      /\ mockSessionData = MockInitializeSession(status, LayoutEdges(k))
      /\ timers = << >>
      /\ backendAvailable = FALSE
      /\ checkPending = TRUE
      /\ sessionId = NULL
      /\ nodeProgress = NoProgress
      /\ mapEdges = << >>
      /\ calls = << >>
      /\ graded = NoGraded
      /\ nodePath = << >>
      /\ focusedNodeId = NULL
      /\ ArrangeIdle

\* the ids focusOnNode is applied to: the nodes of the loaded map and no id
FocusIds == DOMAIN fullNodes \cup {NULL}

\* focusOnNode of mindmap.tsx applied to any node of the loaded map
NextFocus ==
  \/ \E nodeId \in FocusIds : FocusOnNode(nodeId)
  \/ \E n \in Range(LayoutNodes(MaxChildren)), p \in DragTargets : DragNode(n, p)

SpecFocus == InitLayout /\ [][NextFocus]_vars

\* focusOnNode of the variant with parent applied to any node of the map
NextFocusParent ==
  \/ \E nodeId \in FocusIds : FocusOnNodeWithParent(nodeId)
  \/ \E n \in Range(LayoutNodes(MaxChildren)), p \in DragTargets : DragNode(n, p)

SpecFocusParent == InitLayout /\ [][NextFocusParent]_vars

\* ------------------------------------- app/components/MindMap.tsx
\* The part of the served map this component is followed on: a chain, so
\* every node has at most one child and one parent.
RadialNodes == <<"root", "input-processing", "tokenization">>

\* Positions of this component are kept in eighths of a pixel, so that the
\* factor 1.5 of onNodeClick stays exact over three rescalings.
Px(v) == 8 * v

\* arrangeNodesHierarchically: the level of a node, the longest chain of
\* edges that leads to it
RECURSIVE Level(_, _)
Level(edgeList, n) ==
  IF Parents(edgeList, n) = {} THEN 0
  ELSE LET above == {Level(edgeList, p) : p \in Parents(edgeList, n)}
       IN 1 + CHOOSE l \in above : \A k \in above : k <= l

\* arrangeNodesHierarchically: node.position of every node, from the levels
\* of nodeMap (a level is centred, its nodes stand in the order of the list)
ArrangePositions(nodeList, lv) ==
  LET LEVEL_HEIGHT == 200
      NODE_WIDTH == 250
      InLevel(i) == {j \in 1..Len(nodeList) : lv[nodeList[j]] = lv[nodeList[i]]}
      index(i) == Cardinality({j \in InLevel(i) : j < i})
  IN [n \in Range(nodeList) |->
        LET i == CHOOSE j \in 1..Len(nodeList) : nodeList[j] = n
        IN Pos(Px(index(i) * NODE_WIDTH) - Px(Cardinality(InLevel(i)) * NODE_WIDTH) \div 2,
               Px(lv[n] * LEVEL_HEIGHT))]

\* arrangeNodesHierarchically as one step
ArrangeNodesHierarchically(nodeList, edgeList) ==
  ArrangePositions(nodeList, [n \in Range(nodeList) |-> Level(edgeList, n)])

\* arrangeNodesHierarchically followed through its while loop ------------
\* the ids of the first nodes of the served map
ArrangeIds == <<"root", "input-processing", "tokenization", "embedding">>

\* source.children of node n: the targets of its edges in the order of the
\* edge list (an edge with an end that is no node is skipped)
ChildList(nodeList, edgeList, n) ==
  LET own == SelectSeq(edgeList,
                       LAMBDA e : /\ e.source = n
                                  /\ e.source \in Range(nodeList)
                                  /\ e.target \in Range(nodeList))
  IN [i \in 1..Len(own) |-> own[i].target]

\* rootNodes: the nodes without parents, in the order of the node list
RootNodes(nodeList, edgeList) ==
  SelectSeq(nodeList, LAMBDA n : Parents(edgeList, n) = {})

\* a loop that sets the level of a child on its first visit only
FirstVisitLevel(childLevel, currentLevel) ==
  IF childLevel = 0 THEN currentLevel + 1 ELSE childLevel

\* if (child.level <= current.level) child.level = current.level + 1
RaisedLevel(childLevel, currentLevel) ==
  IF childLevel <= currentLevel THEN currentLevel + 1 ELSE childLevel

\* a loop that is never entered
LoopNeverRuns(q) == FALSE

\* while (queue.length > 0)
LoopRuns(q) == Len(q) > 0

\* the edge lists without repeated edges over these nodes that have no cycle
AcyclicEdgeLists(nodeList) ==
  LET ids == Range(nodeList)
      pairs == {e \in {Edge(a, b) : a \in ids, b \in ids} : e.source # e.target}
      lists == UNION {[1..m -> pairs] : m \in 0..MaxArrangeEdges}
  IN {l \in lists :
        /\ \A i, j \in 1..Len(l) : i # j => l[i] # l[j]
        /\ \E rank \in [ids -> 1..Cardinality(ids)] :
             \A i \in 1..Len(l) : rank[l[i].source] < rank[l[i].target]}

\* arrangeNodesHierarchically(nodes, edges) at the head of its while loop:
\* every level is 0 and the queue holds the root nodes
InitArrange ==
  \E k \in 0..MaxArrangeNodes :
    \E edgeList \in AcyclicEdgeLists(SubSeq(ArrangeIds, 1, k)) :
      /\ arrNodes = SubSeq(ArrangeIds, 1, k)
      /\ arrEdges = edgeList
      /\ level = [n \in Range(SubSeq(ArrangeIds, 1, k)) |-> 0]
      /\ queue = RootNodes(SubSeq(ArrangeIds, 1, k), edgeList)
      /\ arrPc = "bfs"
      /\ topic = NULL
      /\ fullNodes = EmptyFn
      /\ fullEdges = << >>
      /\ nodes = EmptyFn
      /\ edges = {}
      /\ selectedNode = NULL
      /\ focusedNode = NULL
      /\ lastClickedNode = NULL
      /\ nodeQuestions = << >>
      /\ isModalOpen = FALSE
      /\ mockSessionData = NoSession
      /\ timers = << >>
      /\ backendAvailable = FALSE
      /\ checkPending = TRUE
      /\ sessionId = NULL
      /\ nodeProgress = NoProgress
      /\ mapEdges = << >>
      /\ calls = << >>
      /\ graded = NoGraded
      /\ positions = NoPositions
      /\ nodePath = << >>
      /\ focusedNodeId = NULL

\* one pass of the while loop: the head of the queue is taken off, each of
\* its children gets its level raised where needed and is pushed
ArrangeStep ==
  /\ arrPc = "bfs"
  /\ LoopRuns(queue)
  /\ LET current == Head(queue)
         kids == ChildList(arrNodes, arrEdges, current)
     IN /\ level' = [n \in DOMAIN level |->
                       IF n \in Range(kids)
                         THEN RaisedLevel(level[n], level[current])
                         ELSE level[n]]
        /\ queue' = Tail(queue) \o kids
  /\ UNCHANGED << arrNodes, arrEdges, arrPc, positions, nodePath, focusedNodeId,
                  clientVars, mockSessionData, timers, netVars, ctxVars >>

\* after the loop: the nodes are grouped by level and positioned
ArrangeFinish ==
  /\ arrPc = "bfs"
  /\ ~LoopRuns(queue)
  /\ positions' = ArrangePositions(arrNodes, level)
  /\ arrPc' = "done"
  /\ UNCHANGED << arrNodes, arrEdges, level, queue, nodePath, focusedNodeId,
                  clientVars, mockSessionData, timers, netVars, ctxVars >>

NextArrange ==
  \/ ArrangeStep
  \/ ArrangeFinish

SpecArrange == InitArrange /\ [][NextArrange]_vars

\* The call runs to its end without giving up the thread: while a pass of
\* the loop or the positioning can be taken, it is taken.
SpecArrangeLive ==
  InitArrange /\ [][NextArrange]_vars /\ WF_vars(ArrangeStep) /\ WF_vars(ArrangeFinish)

\* where a node of this component is dropped
RadialDragTargets == { Pos(Px(5), Px(5)), Pos(Px(-20), Px(10)) }

\* onNodeClick: the place on the half circle of the only child and of the
\* only parent (angle 0 and angle pi, radius 250; sin(pi) * 250 is 3e-14 in
\* floating point and taken as 0)
OnlyChildPosition == Pos(Px(250), Px(100))

OnlyParentPosition == Pos(Px(-250), Px(-100))

\* onNodeClick: a node that is not connected to the clicked one moves to
\* 1.5 times its position
FadedPosition(p) == Pos((3 * p.x) \div 2, (3 * p.y) \div 2)

\* onNodeClick: the functional update of the node positions
ClickPositions(pos, edgeList, id) ==
  IF id \notin DOMAIN pos THEN pos
  ELSE [n \in DOMAIN pos |->
          IF n = id THEN Pos(0, 0)
          ELSE IF n \in Children(edgeList, id) THEN OnlyChildPosition
          ELSE IF n \in Parents(edgeList, id) THEN OnlyParentPosition
          ELSE FadedPosition(pos[n])]

\* mount effect of MindMap: the provider's session is initialized and the
\* nodes are arranged
InitializeMindMap(nodeList) ==
  /\ InitializeSession(nodeList)
  /\ positions' = ArrangeNodesHierarchically(nodeList, ApiGetMindMap(nodeList))
  /\ UNCHANGED << clientVars, mockSessionData, timers, netVars, nodePath,
                  focusedNodeId, arrangeVars >>

\* onNodeClick(node); taken while 1.5 times every position is a whole number
\* of eighths
OnNodeClick(id) ==
  /\ id \in DOMAIN positions
  /\ \A n \in DOMAIN positions : positions[n].x % 2 = 0 /\ positions[n].y % 2 = 0
  /\ focusedNodeId' = id
  /\ positions' = ClickPositions(positions, mapEdges, id)
  /\ UNCHANGED << clientVars, mockSessionData, timers, netVars, ctxVars, nodePath,
                  arrangeVars >>

\* resetView ("Reset View" button)
ResetView ==
  /\ DOMAIN nodeProgress # {}
  /\ focusedNodeId' = NULL
  /\ positions' = ArrangeNodesHierarchically(RadialNodes, mapEdges)
  /\ UNCHANGED << clientVars, mockSessionData, timers, netVars, ctxVars, nodePath,
                  arrangeVars >>

\* The map of the app/ client as the learner clicks, drags and resets it.
NextRadial ==
  \/ InitializeMindMap(RadialNodes)
  \/ \E id \in Range(RadialNodes) : OnNodeClick(id)
  \/ ResetView
  \/ \E n \in Range(RadialNodes), p \in RadialDragTargets : DragNode(n, p)

SpecRadial == Init /\ [][NextRadial]_vars

\* ------------------------------------------------------------ properties
\* every parent of n (in the session's edges) is completed in the session
ParentsCompleted(msd, n) ==
  \A p \in Parents(msd.edges, n) :
    p \in DOMAIN msd.nodes /\ msd.nodes[p].status = "completed"

\* position of a status in locked -> not_started -> in_progress -> completed
Rank(status) ==
  CASE status = "locked" -> 0
    [] status = "not_started" -> 1
    [] status = "in_progress" -> 2
    [] status = "completed" -> 3

\* C1: a node of the session leaves locked only in a step after which every
\* one of its parents is completed (AND-gate over the parents).
C1_LockedUntilAllParentsCompleted ==
  [][\A n \in DOMAIN mockSessionData.nodes \cap DOMAIN mockSessionData'.nodes :
       (mockSessionData.nodes[n].status = "locked"
        /\ mockSessionData'.nodes[n].status # "locked")
         => ParentsCompleted(mockSessionData', n)]_vars

\* C2: once a completion (its progress refresh included) has finished, a
\* shown child whose parents are all completed is shown unlocked.
C2_UnlockedChildShown ==
  timers = << >> =>
    \A n \in DOMAIN nodes :
      (Parents(fullEdges, n) # {} /\ ParentsCompleted(mockSessionData, n))
        => nodes[n] # "locked"

\* C3: a node of the session that is completed stays completed in every step.
C3_CompletedStaysCompleted ==
  [][\A n \in DOMAIN mockSessionData.nodes \cap DOMAIN mockSessionData'.nodes :
       mockSessionData.nodes[n].status = "completed"
         => mockSessionData'.nodes[n].status = "completed"]_vars

\* C4: when the submission that passed the last open question of the selected
\* node has been handled to its end, the node is completed in the session, in
\* the full map and in the shown map.
C4_LastAnswerCompletesNode ==
  (/\ timers = << >>
   /\ isModalOpen
   /\ selectedNode \in DOMAIN nodes
   /\ selectedNode \in DOMAIN mockSessionData.nodes
   /\ mockSessionData.nodes[selectedNode].questions # << >>
   /\ AllPassed(mockSessionData.nodes[selectedNode].questions))
    => /\ mockSessionData.nodes[selectedNode].status = "completed"
       /\ fullNodes[selectedNode] = "completed"
       /\ nodes[selectedNode] = "completed"

\* C5: for a node with parents, checkNodeUnlockable answers true exactly when
\* all its parents are completed.
C5_UnlockableIffParentsCompleted ==
  \A n \in DOMAIN mockSessionData.nodes :
    Parents(mockSessionData.edges, n) # {}
      => (MockCheckNodeUnlockable(mockSessionData, n)
            <=> ParentsCompleted(mockSessionData, n))

\* C6: a finished updateNodeStatus has moved no status backward.
C6_StatusOnlyForward ==
  [][(calls # << >> /\ Head(calls).op = "updateNodeStatus" /\ calls' = Tail(calls))
       => \A n \in DOMAIN nodeProgress :
            Rank(nodeProgress'[n].status) >= Rank(nodeProgress[n].status)]_vars

\* C7: no step changes the progress entry of a node that is locked and has a
\* parent that is not completed.
C7_LockedEntryUnchanged ==
  [][\A n \in DOMAIN nodeProgress \cap DOMAIN nodeProgress' :
       (/\ nodeProgress[n].status = "locked"
        /\ \E p \in Parents(CtxEdges, n) : nodeProgress[p].status # "completed")
         => nodeProgress'[n] = nodeProgress[n]]_vars

\* updateNodeStatus(n, completed) of the mock session, called a second time
\* right after the first, on every status assignment of the diamond map
MockCompletedTwice ==
  \A st \in [Range(DiamondNodes) -> Status], n \in Range(DiamondNodes) :
    LET once == MockUpdateNodeStatus(MockInitializeSession(st, DiamondEdges),
                                     n, "completed")
    IN MockUpdateNodeStatus(once, n, "completed") = once

\* C8: setting a node to completed a second time right after a first
\* successful time leaves the whole progress as it is after the first time,
\* in the provider (whatever the backend answers) and in the mock session.
C8_CompletedTwiceSame ==
  /\ \A n \in DOMAIN nodeProgress, success \in BOOLEAN :
       LET once == UpdateNodeStatusResult(nodeProgress, n, "completed", TRUE)
       IN UpdateNodeStatusResult(once, n, "completed", success) = once
  /\ MockCompletedTwice

\* C8 witness: updateNodeStatus has set a node to completed that did not
\* start so, and no call is pending
C8_Witness ==
  /\ calls = << >>
  /\ "tokenization" \in DOMAIN nodeProgress
  /\ nodeProgress["tokenization"].status = "completed"
  /\ nodeProgress["input-processing"].status = "completed"

\* C9: no two grading calls for the same question are in flight together.
C9_OneGradingCallPerQuestion ==
  \A i, j \in 1..Len(timers) :
    (i # j /\ timers[i].pc = "submit" /\ timers[j].pc = "submit")
      => timers[i].qid # timers[j].qid

\* C10: the attempts counter of every question equals the number of answers
\* graded for it.
C10_AttemptsCountGraded ==
  \A n \in DOMAIN nodeProgress :
    \A k \in 1..Len(nodeProgress[n].questions) :
      nodeProgress[n].questions[k].attempts = graded[n][k]

C12_FailedGradingKeepsProgress ==
  [][(/\ timers # << >>
      /\ Head(timers).pc = "net"
      /\ Head(timers).net = "submit"
      /\ Len(timers') = Len(timers)
      /\ timers'[Len(timers')].pc = "submit")
       => mockSessionData'.nodes = mockSessionData.nodes]_vars
\* the step in which handleNodeClick calls generateQuestions for node n
GenerateCalled(n) ==
  /\ timers' # timers
  /\ Len(timers') >= Len(timers)
  /\ timers' # << >>
  /\ timers'[Len(timers')].pc = "clickGen"
  /\ timers'[Len(timers')].node = n

\* C13: when questions are generated for a node whose stored questions were
\* generated before and not answered since (each still has attempts 0), the
\* stored list has no two questions with the same id afterwards and every
\* question of the list has the attempts count its id had before.
C13_RegenerateKeepsIdsAndAttempts ==
  [][\A n \in DOMAIN mockSessionData.nodes :
       LET old == mockSessionData.nodes[n].questions
           new == mockSessionData'.nodes[n].questions
       IN (/\ GenerateCalled(n)
           /\ old # << >>
           /\ \A k \in 1..Len(old) : old[k].attempts = 0)
          => /\ \A i, j \in 1..Len(new) : new[i].id = new[j].id => i = j
             /\ \A i \in 1..Len(new) :
                  /\ FindIndex(old, new[i].id) # 0
                  /\ new[i].attempts = old[FindIndex(old, new[i].id)].attempts]_vars

\* the quiz of root has been shown and closed without an answer, and the
\* second generateQuestions call for root is in flight
C13_Witness ==
  /\ timers # << >>
  /\ Head(timers).pc = "clickGen" /\ Head(timers).node = "root"
  /\ nodeQuestions # << >>
  /\ \A i \in 1..Len(nodeQuestions) :
       nodeQuestions[i].id.node = "root" /\ nodeQuestions[i].status = "not_started"
  /\ "root" \in DOMAIN mockSessionData.nodes
  /\ Len(mockSessionData.nodes["root"].questions) = NumMockQuestions
  /\ \A k \in 1..NumMockQuestions :
       mockSessionData.nodes["root"].questions[k].attempts = 0

\* C14: the stored question list of a node never gets shorter, and a stored
\* question that is passed or failed is never afterwards stored as unanswered
\* (not_started), as long as the session is the same.
C14_QuestionsNeverRevert ==
  [][\A n \in DOMAIN mockSessionData.nodes \cap DOMAIN mockSessionData'.nodes :
       LET old == mockSessionData.nodes[n].questions
           new == mockSessionData'.nodes[n].questions
       IN /\ Len(new) >= Len(old)
          /\ \A k \in 1..Len(old) :
               old[k].status \in {"passed", "failed"}
                 => /\ FindIndex(new, old[k].id) # 0
                    /\ new[FindIndex(new, old[k].id)].status # "not_started"]_vars

\* C15: right after a mind map is loaded, every node without an incoming edge
\* has status not_started and every other node has status locked.
C15_InitialStatusByInDegree ==
  [][(topic = NULL /\ topic' # NULL)
       => \A n \in DOMAIN fullNodes' :
            fullNodes'[n] = IF Parents(fullEdges', n) = {}
                              THEN "not_started" ELSE "locked"]_vars

\* the step in which the provider has loaded a map: initializeSession, or
\* setMindMap (the only step that leaves every node without questions while
\* no call starts or ends)
MapLoaded ==
  \/ sessionId = NULL /\ sessionId' # NULL
  \/ /\ sessionId # NULL
     /\ calls' = calls
     /\ << nodeProgress, mapEdges >>' # << nodeProgress, mapEdges >>
     /\ \A n \in DOMAIN nodeProgress' : nodeProgress'[n].questions = << >>

\* C16: when a map has been loaded, every node to which no edge of the map
\* leads is unlockable, wherever it stands in the node list.
C16_EveryRootUnlockable ==
  [][MapLoaded
       => \A n \in DOMAIN nodeProgress' :
            Parents(mapEdges', n) = {} => nodeProgress'[n].unlockable]_vars

\* C17: while a node f is focused, the visible nodes are exactly f, the
\* targets of the edges out of f and at most one source of an edge into f;
\* every visible edge is an edge of the map that starts at f or leads from
\* that shown parent to f.
C17_FocusShowsChildrenAndOneParent ==
  focusedNode # NULL =>
    \E shown \in SUBSET Parents(fullEdges, focusedNode) :
      /\ Cardinality(shown) <= 1
      /\ DOMAIN nodes = {focusedNode} \cup Children(fullEdges, focusedNode) \cup shown
      /\ \A e \in edges :
           /\ e \in Range(fullEdges)
           /\ \/ e.source = focusedNode
              \/ e.target = focusedNode /\ e.source \in shown

\* hub, which has two parents and at least two children, is focused and
\* shown with its parent root
C17_Witness ==
  /\ focusedNode = "hub"
  /\ "root" \in DOMAIN nodes
  /\ "alt" \notin DOMAIN nodes
  /\ Cardinality(Children(fullEdges, "hub")) >= 2
  /\ Edge("root", "hub") \in edges

\* C18: when the focus moves to a node, that node is placed at (0,0), a
\* single child has x = 0, and the children that share a row (the same y)
\* are at most 3, at different x, and mirrored about x = 0.
C18_FocusLayoutCentred ==
  [][focusedNode' # focusedNode =>
       LET kids == Children(fullEdges, focusedNode') \cap DOMAIN positions'
           Row(c) == {d \in kids : positions'[d].y = positions'[c].y}
       IN /\ focusedNode' \in DOMAIN positions'
          /\ positions'[focusedNode'] = Pos(0, 0)
          /\ Cardinality(kids) = 1 => \A c \in kids : positions'[c].x = 0
          /\ \A c \in kids :
               /\ Cardinality(Row(c)) <= 3
               /\ \A d \in Row(c) :
                    /\ \E e \in Row(c) : positions'[e].x = 0 - positions'[d].x
                    /\ \A e \in Row(c) :
                         e # d => positions'[e].x # positions'[d].x]_vars

\* C20: focusOnNode called with an empty id leaves no node and no edge
\* visible.
C20_EmptyIdEmptiesView ==
  /\ DOMAIN ViewAfterFocusWithParent(NULL).nodes = {}
  /\ ViewAfterFocusWithParent(NULL).edges = {}

\* C19: clicking a node a second time leaves every position where the first
\* click put it, whatever the positions were before (stated where 1.5 times
\* 1.5 times every position is a whole number of eighths).
C19_FocusTwiceSameAsOnce ==
  (\A m \in DOMAIN positions : positions[m].x % 4 = 0 /\ positions[m].y % 4 = 0)
    => \A id \in DOMAIN positions :
         ClickPositions(ClickPositions(positions, mapEdges, id), mapEdges, id)
           = ClickPositions(positions, mapEdges, id)

\* C21: the step in which a question-generation request fails leaves the
\* status and the stored questions of every node of the session as they were
\* before the request.
C21_FailedGenerationKeepsProgress ==
  [][(/\ timers # << >>
      /\ Head(timers).pc = "net" /\ Head(timers).net = "generate"
      /\ Len(timers') = Len(timers)
      /\ timers'[Len(timers')].pc = "clickGen")
       => mockSessionData'.nodes = mockSessionData.nodes]_vars

\* C22: when the status update that generateQuestions sends for a node is
\* refused by the server, the progress map holds the status the node had
\* before the call.
C22_RefusedStatusWriteLeavesStatus ==
  [][(/\ calls # << >>
      /\ Head(calls).op = "generateQuestions"
      /\ GenerateDone(FALSE))
       => nodeProgress'[Head(calls).node].status = Head(calls).before]_vars

\* C23: a click on a node shown as locked changes nothing: the selected and
\* the focused node, the visible nodes and edges, the statuses, the click
\* tracking, the quiz and the modal stay as they are, and no request is made
\* (no pending call is added, the stored session is untouched).
C23_LockedClickHasNoEffect ==
  [][\A n \in DOMAIN nodes, within300 \in BOOLEAN :
       (nodes[n] = "locked" /\ ClickNode(n, within300, MaxPending))
         => UNCHANGED << clientVars, mockSessionData, timers >>]_vars

\* a locked node can be clicked after the learner has selected another node
C23_Witness ==
  /\ topic # NULL /\ ~ModalShown /\ timers = << >>
  /\ selectedNode # NULL
  /\ \E n \in DOMAIN nodes : nodes[n] = "locked" /\ n # selectedNode

\* C24: the fallback to the mock is sticky.  A request to the backend fails
\* only after the availability probe has settled, and the failure leaves
\* backendAvailable false; once the probe has settled it does not settle
\* again and backendAvailable never goes from false to true, so every call
\* made after a failure finds it false.
C24_FallbackIsSticky ==
  [][/\ (/\ timers # << >> /\ Head(timers).pc = "net"
         /\ Len(timers') = Len(timers) /\ timers' # timers)
          => (~checkPending /\ ~backendAvailable')
     /\ ~checkPending => (~checkPending' /\ (backendAvailable' => backendAvailable))
    ]_vars

\* a request has failed and a later call has been made on the mock
C24_Witness ==
  /\ ~checkPending /\ ~backendAvailable
  /\ timers # << >> /\ Head(timers).pc # "net" /\ Head(timers).net = "none"
  /\ Head(timers).cont = "none"

\* C25: the path buildNodePath gives for a node begins with root, ends with
\* that node, and every two consecutive entries are joined by an edge of the
\* map; this holds for the root node too.  Stated on nodePath after every
\* step of focusOnNode that moves the focus.
C25_PathFromRootToNode ==
  [][focusedNode' # focusedNode =>
       /\ Len(nodePath') > 0
       /\ nodePath'[1] = "root"
       /\ nodePath'[Len(nodePath')] = focusedNode'
       /\ \A i \in 1..(Len(nodePath') - 1) :
            Edge(nodePath'[i], nodePath'[i + 1]) \in Range(fullEdges)]_vars

\* C26: a node of the session becomes completed by an answer submission
\* only if it has at least one stored question and all of them are passed; a
\* submission for a node without stored questions, or with a question id the
\* node does not have, does not complete it.
C26_CompletedOnlyWithAllPassed ==
  [][\A n \in DOMAIN mockSessionData.nodes \cap DOMAIN mockSessionData'.nodes :
       (/\ mockSessionData.nodes[n].status # "completed"
        /\ mockSessionData'.nodes[n].status = "completed")
         => /\ Len(mockSessionData'.nodes[n].questions) >= 1
            /\ \A i \in 1..Len(mockSessionData'.nodes[n].questions) :
                 mockSessionData'.nodes[n].questions[i].status = "passed"]_vars

\* C27: whenever the quiz modal is shown, its questions are those generated
\* for the selected node, and every answer on its way carries the id of a
\* question of the node it is submitted for, also when clicks on two nodes
\* and a pending generateQuestions response interleave.
C27_ModalQuestionsOfSelectedNode ==
  /\ ModalShown =>
       \A i \in 1..Len(nodeQuestions) : nodeQuestions[i].id.node = selectedNode
  /\ \A k \in 1..Len(timers) :
       timers[k].pc = "submit" => timers[k].qid.node = timers[k].node

\* C28: when no handler is waiting for a response (every focus, click,
\* submission and refresh has finished), every visible node is a node of the
\* full map and is shown with the status the full map has for it.
C28_VisibleAgreesWithFull ==
  timers = << >> =>
    \A n \in DOMAIN nodes : n \in DOMAIN fullNodes /\ nodes[n] = fullNodes[n]

\* C29: arrangeNodesHierarchically terminates on every finite graph without
\* a cycle: its queue becomes empty and the call goes on to the positioning.
C29_ArrangeTerminates == <>(queue = << >> /\ arrPc = "done")

\* the call has ended on a map in which a node was pushed more than once
C29_Witness ==
  /\ arrPc = "done" /\ queue = << >>
  /\ \E n \in Range(arrNodes) : Cardinality(Parents(arrEdges, n)) >= 2

\* C30: after arrangeNodesHierarchically on a graph without a cycle every
\* node without parents has level 0, and for every edge the level of the
\* target is greater than the level of the source.
C30_LevelsFollowEdges ==
  arrPc = "done" =>
    /\ \A n \in Range(arrNodes) : Parents(arrEdges, n) = {} => level[n] = 0
    /\ \A i \in 1..Len(arrEdges) :
         level[arrEdges[i].target] > level[arrEdges[i].source]

\* the call has ended on root -> a, root -> b, b -> a with a visited first:
\* a was at level 1 and has been raised to level 2
C30_Witness ==
  /\ arrPc = "done"
  /\ \E a, b \in Range(arrNodes) :
       /\ Edge("root", a) \in Range(arrEdges)
       /\ Edge(b, a) \in Range(arrEdges)
       /\ level["root"] = 0 /\ level[b] = 1 /\ level[a] = 2

====
